---- MODULE Spec2Model ----
(***************************************************************************)
(* Model of examples/monorepo-github/backend/src/main.py: the BackendApp   *)
(* class (its constructor, greet and health_check) and the script entry    *)
(* point.  Python objects live on a heap: descriptor instances are         *)
(* attribute dictionaries in `apps`, the mappings health_check returns are *)
(* insertion-ordered dict objects in `dicts`.  Client 0 is the entry       *)
(* point; clients 1..NumReaders are other callers sharing the instances.   *)
(* A method call runs one attribute load or one build per step, as the     *)
(* interpreter does, so calls of different clients interleave.  A client   *)
(* constructs at most one instance and holds at most one result at a time, *)
(* so the heap has one slot of each kind per client; a slot is empty (<<>>)*)
(* or holds one object (<<obj>>).                                          *)
(***************************************************************************)
EXTENDS Integers, Sequences, FiniteSets, TLC

\* ---------------------------------------------------------------- bounds
NumReaders == 1

Main == 0
Readers == 1..NumReaders
Clients == {Main} \cup Readers
\* Heap slots: the instance client a constructed, and the dict objects alive.
AppIds == Clients
DictIds == 1..(NumReaders + 1)

\* Texts the fields of a pre-existing descriptor are drawn from (SpecAny).
Names == {"Backend Application", "svc", ""}
Versions == {"1.0.0", "2", ""}
\* What a caller writes into a mapping it was handed.
MutKeys == {"status", "extra"}
MutVals == {"down"}

VARIABLES apps, dicts, frame, ret, first, mainpc, app, stdout, exitStatus

vars == <<apps, dicts, frame, ret, first, mainpc, app, stdout, exitStatus>>

\* ------------------------------------------------------- Python objects
\* An object with no attributes yet (its __dict__ is empty).
EmptyObj == [a \in {} |-> ""]

\* self.<a> = v
SetAttr(o, a, v) == [x \in (DOMAIN o) \cup {a} |-> IF x = a THEN v ELSE o[x]]

\* Whether self.<a> loads; it raises AttributeError otherwise.
HasAttr(o, a) == a \in DOMAIN o

\* Mutant: __init__ forgets the second assignment.
BackendApp_init_NoVersion(self) == SetAttr(self, "name", "Backend Application")

\* BackendApp.__init__: the two assignments, in order.
BackendApp_init(self) ==
    SetAttr(SetAttr(self, "name", "Backend Application"), "version", "1.0.0")

\* Mutant: the "v" before the version is left out.
GreetFormat_NoV(name, version) == "Hello from " \o name \o " " \o version

\* Mutant: the two placeholders are interchanged.
GreetFormat_Swapped(name, version) == "Hello from " \o version \o " v" \o name

\* f"Hello from {self.name} v{self.version}" over the loaded values.
GreetFormat(name, version) == "Hello from " \o name \o " v" \o version

\* Mutant: the values of "service" and "version" are interchanged.
HealthDict_Swapped(name, version) ==
    << <<"status", "healthy">>, <<"service", version>>, <<"version", name>> >>

\* Mutant: the record carries a fourth entry.
HealthDict_Extra(name, version) ==
    << <<"status", "healthy">>, <<"service", name>>, <<"version", version>>,
       <<"name", name>> >>

\* The dict display of health_check over the loaded values: key/value pairs
\* in insertion order.
HealthDict(name, version) ==
    << <<"status", "healthy">>, <<"service", name>>, <<"version", version>> >>

\* ----------------------------------------------------------- dict objects
DictKeys(d) == {d[i][1] : i \in 1..Len(d)}

\* d[k] for a key that is present.
DictGet(d, k) == d[CHOOSE i \in 1..Len(d) : d[i][1] = k][2]

\* The mapping a dict denotes; dict equality in Python ignores the order.
DictMap(d) == [k \in DictKeys(d) |-> DictGet(d, k)]

\* d[k] = v: replaces in place, or appends a new key.
DictSetItem(d, k, v) ==
    IF k \in DictKeys(d)
    THEN [i \in 1..Len(d) |-> IF d[i][1] = k THEN <<k, v>> ELSE d[i]]
    ELSE Append(d, <<k, v>>)

\* ------------------------------------------------------------- rendering
RECURSIVE Contains(_, _)
Contains(s, ch) ==
    IF Len(s) = 0 THEN FALSE ELSE Head(s) = ch \/ Contains(Tail(s), ch)

RECURSIVE Escape(_, _)
\* Backslashes and the enclosing quote are escaped (printable texts).
Escape(s, q) ==
    IF Len(s) = 0 THEN ""
    ELSE (IF Head(s) = "\\" \/ Head(s) = q THEN "\\" \o Head(s) ELSE Head(s))
         \o Escape(Tail(s), q)

\* repr() of a str: single quotes, unless the text holds a single quote and
\* no double quote.
StrRepr(s) ==
    LET q == IF Contains(s, "'") /\ ~Contains(s, "\"") THEN "\"" ELSE "'"
    IN  q \o Escape(s, q) \o q

RECURSIVE ItemsRepr(_)
ItemsRepr(d) ==
    IF Len(d) = 0 THEN ""
    ELSE StrRepr(d[1][1]) \o ": " \o StrRepr(d[1][2])
         \o (IF Len(d) > 1 THEN ", " ELSE "") \o ItemsRepr(Tail(d))

\* What an f-string renders for a dict of strings: its repr, in insertion
\* order.
DictRepr(d) == "{" \o ItemsRepr(d) \o "}"

\* ------------------------------------------------------------------ state
\* A frame: the method's position, self, the values loaded so far; and, for
\* the record, the fields as they were when the call was made.
IdleFrame == [pc |-> "idle", self |-> 0, name |-> "", version |-> "",
              snap |-> EmptyObj]

\* What a client's last call gave: a string (greet), a reference to a dict
\* (health_check) with the mapping as it was on return, or an exception.
NoRet == [op |-> "none", self |-> 0, str |-> "", ref |-> 0, val |-> <<>>,
          exc |-> "", snap |-> EmptyObj]

\* Per instance: the results of the first greet and the first health_check
\* that returned on it (empty until then).
NoFirst == [greet |-> <<>>, health |-> <<>>]

Init ==
    /\ apps = [a \in AppIds |-> <<>>]
    /\ dicts = [d \in DictIds |-> <<>>]
    /\ frame = [c \in Clients |-> IdleFrame]
    /\ ret = [c \in Clients |-> NoRet]
    /\ first = [a \in AppIds |-> NoFirst]
    /\ mainpc = "construct"
    /\ app = 0
    /\ stdout = <<>>
    /\ exitStatus = <<>>

\* The module is imported (the entry point does not run) and a descriptor
\* already exists in slot Main, whatever texts its two fields hold.
InitAny ==
    /\ \E n \in Names, v \in Versions :
          apps = [a \in AppIds |->
                    IF a = Main
                    THEN << SetAttr(SetAttr(EmptyObj, "name", n), "version", v) >>
                    ELSE <<>>]
    /\ dicts = [d \in DictIds |-> <<>>]
    /\ frame = [c \in Clients |-> IdleFrame]
    /\ ret = [c \in Clients |-> NoRet]
    /\ first = [a \in AppIds |-> NoFirst]
    /\ mainpc = "construct"
    /\ app = 0
    /\ stdout = <<>>
    /\ exitStatus = <<>>

mainVars == <<mainpc, app, stdout, exitStatus>>

Constructed == {a \in AppIds : apps[a] # <<>>}

\* The object behind a reference.
Obj(a) == apps[a][1]

\* The heap once client c lets go of the dict its last call returned (the
\* last reference to it: the object is freed).
Release(c) ==
    IF ret[c].op = "health_check" /\ ret[c].exc = ""
    THEN [dicts EXCEPT ![ret[c].ref] = <<>>]
    ELSE dicts

\* The slot a new dict object takes.
FreeDict(heap) == CHOOSE d \in DictIds :
                     heap[d] = <<>> /\ \A e \in DictIds : heap[e] = <<>> => d <= e

\* ----------------------------------------------------------- BackendApp()
\* Client c allocates an instance and runs __init__ on it; the reference is
\* not visible to anyone before the constructor returns.
Construct(c) ==
    /\ apps[c] = <<>>
    /\ apps' = [apps EXCEPT ![c] = << BackendApp_init(EmptyObj) >>]

\* Entering a method: the frame starts at its first attribute load, and the
\* caller lets go of what its previous call gave it.
Call(c, a, op) ==
    /\ frame[c].pc = "idle"
    /\ a \in Constructed
    /\ frame' = [frame EXCEPT ![c] =
                   [pc |-> op, self |-> a, name |-> "", version |-> "",
                    snap |-> Obj(a)]]
    /\ ret' = [ret EXCEPT ![c] = NoRet]
    /\ dicts' = Release(c)

\* An uncaught AttributeError leaves the method.
Raise(c, op) ==
    /\ ret' = [ret EXCEPT ![c] = [NoRet EXCEPT !.op = op,
                                   !.self = frame[c].self,
                                   !.exc = "AttributeError",
                                   !.snap = frame[c].snap]]
    /\ frame' = [frame EXCEPT ![c] = IdleFrame]

\* ------------------------------------------------------------------ greet
\* {self.name}
greet_load_name(c) ==
    /\ frame[c].pc = "greet"
    /\ IF HasAttr(Obj(frame[c].self), "name")
       THEN /\ frame' = [frame EXCEPT ![c].pc = "greet_version",
                                      ![c].name = Obj(frame[c].self)["name"]]
            /\ UNCHANGED ret
       ELSE Raise(c, "greet")
    /\ UNCHANGED <<apps, dicts, first, mainVars>>

\* {self.version}
greet_load_version(c) ==
    /\ frame[c].pc = "greet_version"
    /\ IF HasAttr(Obj(frame[c].self), "version")
       THEN /\ frame' = [frame EXCEPT ![c].pc = "greet_return",
                                      ![c].version = Obj(frame[c].self)["version"]]
            /\ UNCHANGED ret
       ELSE Raise(c, "greet")
    /\ UNCHANGED <<apps, dicts, first, mainVars>>

\* Mutant: the greeting is stored into self.name before it is returned.
greet_return_Storing(c) ==
    /\ frame[c].pc = "greet_return"
    /\ LET s == GreetFormat(frame[c].name, frame[c].version)
           a == frame[c].self
       IN  /\ ret' = [ret EXCEPT ![c] = [NoRet EXCEPT !.op = "greet",
                                          !.self = a, !.str = s,
                                          !.snap = frame[c].snap]]
           /\ first' = IF first[a].greet = <<>>
                       THEN [first EXCEPT ![a].greet = <<s>>]
                       ELSE first
           /\ apps' = [apps EXCEPT ![a] = << SetAttr(Obj(a), "name", s) >>]
    /\ frame' = [frame EXCEPT ![c] = IdleFrame]
    /\ UNCHANGED <<dicts, mainVars>>

\* The string is built and returned.
greet_return(c) ==
    /\ frame[c].pc = "greet_return"
    /\ LET s == GreetFormat(frame[c].name, frame[c].version)
           a == frame[c].self
       IN  /\ ret' = [ret EXCEPT ![c] = [NoRet EXCEPT !.op = "greet",
                                          !.self = a, !.str = s,
                                          !.snap = frame[c].snap]]
           /\ first' = IF first[a].greet = <<>>
                       THEN [first EXCEPT ![a].greet = <<s>>]
                       ELSE first
    /\ frame' = [frame EXCEPT ![c] = IdleFrame]
    /\ UNCHANGED <<apps, dicts, mainVars>>

\* ----------------------------------------------------------- health_check
\* "service": self.name
hc_load_name(c) ==
    /\ frame[c].pc = "health_check"
    /\ IF HasAttr(Obj(frame[c].self), "name")
       THEN /\ frame' = [frame EXCEPT ![c].pc = "hc_version",
                                      ![c].name = Obj(frame[c].self)["name"]]
            /\ UNCHANGED ret
       ELSE Raise(c, "health_check")
    /\ UNCHANGED <<apps, dicts, first, mainVars>>

\* Mutant: the version is normalised in place (a "v" is put in front) before
\* it is loaded.
hc_load_version_Normalising(c) ==
    /\ frame[c].pc = "hc_version"
    /\ HasAttr(Obj(frame[c].self), "version")
    /\ LET a == frame[c].self
           v == Obj(a)["version"]
           w == IF Len(v) > 0 /\ Head(v) = "v" THEN v ELSE "v" \o v
       IN  /\ apps' = [apps EXCEPT ![a] = << SetAttr(Obj(a), "version", w) >>]
           /\ frame' = [frame EXCEPT ![c].pc = "hc_return", ![c].version = w]
    /\ UNCHANGED <<ret, dicts, first, mainVars>>

\* "version": self.version
hc_load_version(c) ==
    /\ frame[c].pc = "hc_version"
    /\ IF HasAttr(Obj(frame[c].self), "version")
       THEN /\ frame' = [frame EXCEPT ![c].pc = "hc_return",
                                      ![c].version = Obj(frame[c].self)["version"]]
            /\ UNCHANGED ret
       ELSE Raise(c, "health_check")
    /\ UNCHANGED <<apps, dicts, first, mainVars>>

\* Mutant: the record is built once and kept; a later call hands out the
\* object an earlier call built, while it is alive.
hc_return_Cached(c) ==
    /\ frame[c].pc = "hc_return"
    /\ LET d == HealthDict(frame[c].name, frame[c].version)
           a == frame[c].self
           live == {e \in DictIds : dicts[e] # <<>>}
           r == IF live # {} THEN CHOOSE e \in live : TRUE ELSE FreeDict(dicts)
       IN  /\ dicts' = IF live # {} THEN dicts ELSE [dicts EXCEPT ![r] = <<d>>]
           /\ ret' = [ret EXCEPT ![c] = [NoRet EXCEPT !.op = "health_check",
                                          !.self = a, !.ref = r,
                                          !.val = dicts'[r][1],
                                          !.snap = frame[c].snap]]
           /\ first' = IF first[a].health = <<>>
                       THEN [first EXCEPT ![a].health = << dicts'[r][1] >>]
                       ELSE first
    /\ frame' = [frame EXCEPT ![c] = IdleFrame]
    /\ UNCHANGED <<apps, mainVars>>

\* Mutant: the status is also recorded on the instance.
hc_return_Stamping(c) ==
    /\ frame[c].pc = "hc_return"
    /\ LET d == HealthDict(frame[c].name, frame[c].version)
           a == frame[c].self
           r == FreeDict(dicts)
       IN  /\ dicts' = [dicts EXCEPT ![r] = <<d>>]
           /\ ret' = [ret EXCEPT ![c] = [NoRet EXCEPT !.op = "health_check",
                                          !.self = a, !.ref = r, !.val = d,
                                          !.snap = frame[c].snap]]
           /\ first' = IF first[a].health = <<>>
                       THEN [first EXCEPT ![a].health = <<d>>]
                       ELSE first
           /\ apps' = [apps EXCEPT ![a] = << SetAttr(Obj(a), "status", "healthy") >>]
    /\ frame' = [frame EXCEPT ![c] = IdleFrame]
    /\ UNCHANGED mainVars

\* The dict display builds a new dict object on every call; the reference to
\* it is returned.
hc_return(c) ==
    /\ frame[c].pc = "hc_return"
    /\ LET d == HealthDict(frame[c].name, frame[c].version)
           a == frame[c].self
           r == FreeDict(dicts)
       IN  /\ dicts' = [dicts EXCEPT ![r] = <<d>>]
           /\ ret' = [ret EXCEPT ![c] = [NoRet EXCEPT !.op = "health_check",
                                          !.self = a, !.ref = r, !.val = d,
                                          !.snap = frame[c].snap]]
           /\ first' = IF first[a].health = <<>>
                       THEN [first EXCEPT ![a].health = <<d>>]
                       ELSE first
    /\ frame' = [frame EXCEPT ![c] = IdleFrame]
    /\ UNCHANGED <<apps, mainVars>>

\* ------------------------------------------------------------ entry point
\* An exception that reaches the top level ends the process with status 1.
Uncaught ==
    /\ exitStatus' = <<1>>
    /\ mainpc' = "done"
    /\ UNCHANGED <<app, stdout>>

\* app = BackendApp()
MainConstruct ==
    /\ mainpc = "construct"
    /\ Construct(Main)
    /\ app' = Main
    /\ mainpc' = "call_greet"
    /\ UNCHANGED <<dicts, frame, ret, first, stdout, exitStatus>>

\* print(app.greet()): the call ...
MainCallGreet ==
    /\ mainpc = "call_greet"
    /\ Call(Main, app, "greet")
    /\ mainpc' = "print_greet"
    /\ UNCHANGED <<apps, first, app, stdout, exitStatus>>

\* ... and the print of what it returned.
MainPrintGreet ==
    /\ mainpc = "print_greet"
    /\ frame[Main].pc = "idle"
    /\ IF ret[Main].exc # ""
       THEN Uncaught
       ELSE /\ stdout' = Append(stdout, ret[Main].str)
            /\ mainpc' = "call_health"
            /\ UNCHANGED <<app, exitStatus>>
    /\ UNCHANGED <<apps, dicts, frame, ret, first>>

\* print(f"Health: {app.health_check()}"): the call ...
MainCallHealth ==
    /\ mainpc = "call_health"
    /\ Call(Main, app, "health_check")
    /\ mainpc' = "print_health"
    /\ UNCHANGED <<apps, first, app, stdout, exitStatus>>

\* Mutant: the record is printed without the "Health: " in front.
MainPrintHealth_Bare ==
    /\ mainpc = "print_health"
    /\ frame[Main].pc = "idle"
    /\ IF ret[Main].exc # ""
       THEN /\ Uncaught
            /\ UNCHANGED <<dicts, ret>>
       ELSE /\ stdout' = Append(stdout, DictRepr(dicts[ret[Main].ref][1]))
            /\ mainpc' = "exit"
            /\ dicts' = Release(Main)
            /\ ret' = [ret EXCEPT ![Main] = NoRet]
            /\ UNCHANGED <<app, exitStatus>>
    /\ UNCHANGED <<apps, frame, first>>

\* ... and the print of the formatted line; the temporary dict is dropped.
MainPrintHealth ==
    /\ mainpc = "print_health"
    /\ frame[Main].pc = "idle"
    /\ IF ret[Main].exc # ""
       THEN /\ Uncaught
            /\ UNCHANGED <<dicts, ret>>
       ELSE /\ stdout' = Append(stdout,
                            "Health: " \o DictRepr(dicts[ret[Main].ref][1]))
            /\ mainpc' = "exit"
            /\ dicts' = Release(Main)
            /\ ret' = [ret EXCEPT ![Main] = NoRet]
            /\ UNCHANGED <<app, exitStatus>>
    /\ UNCHANGED <<apps, frame, first>>

\* The script ends: the interpreter exits with status 0.
MainExit ==
    /\ mainpc = "exit"
    /\ exitStatus' = <<0>>
    /\ mainpc' = "done"
    /\ UNCHANGED <<apps, dicts, frame, ret, first, app, stdout>>

\* ---------------------------------------------------------- other callers
ReaderConstruct(c) ==
    /\ frame[c].pc = "idle"
    /\ Construct(c)
    /\ UNCHANGED <<dicts, frame, ret, first, mainVars>>

ReaderCall(c) ==
    /\ \E a \in Constructed, op \in {"greet", "health_check"} : Call(c, a, op)
    /\ UNCHANGED <<apps, first, mainVars>>

\* A caller writes into the mapping its last health_check handed it.
ReaderSetItem(c) ==
    /\ frame[c].pc = "idle"
    /\ ret[c].op = "health_check" /\ ret[c].exc = ""
    /\ \E k \in MutKeys, v \in MutVals :
          dicts' = [dicts EXCEPT ![ret[c].ref] = << DictSetItem(@[1], k, v) >>]
    /\ UNCHANGED <<apps, frame, ret, first, mainVars>>

\* ------------------------------------------------------------ transitions
MethodStep(c) ==
    \/ greet_load_name(c)
    \/ greet_load_version(c)
    \/ greet_return(c)
    \/ hc_load_name(c)
    \/ hc_load_version(c)
    \/ hc_return(c)

ReaderStep(c) ==
    \/ ReaderConstruct(c)
    \/ ReaderCall(c)
    \/ ReaderSetItem(c)
    \/ MethodStep(c)

MainStep ==
    \/ MainConstruct
    \/ MainCallGreet
    \/ MainPrintGreet
    \/ MainCallHealth
    \/ MainPrintHealth
    \/ MainExit
    \/ MethodStep(Main)

Next == MainStep \/ \E c \in Readers : ReaderStep(c)

NextAny == \E c \in Readers : ReaderStep(c)

Spec == Init /\ [][Next]_vars

SpecAny == InitAny /\ [][NextAny]_vars

\* A run of the script, watched to its end: the interpreter keeps running the
\* entry point until the script ends, while other callers only call the
\* methods of the instance it constructed.
NextMain == MainStep \/ \E c \in Readers : ReaderCall(c) \/ MethodStep(c)

SpecMain == Init /\ [][NextMain]_vars /\ WF_vars(MainStep)

\* ----------------------------------------------------------------- claims
GreetingLine == "Hello from Backend Application v1.0.0"

HealthRecord == [status |-> "healthy", service |-> "Backend Application",
                 version |-> "1.0.0"]

HealthLine ==
    "Health: {'status': 'healthy', 'service': 'Backend Application', 'version': '1.0.0'}"

HealthKeys == {"status", "service", "version"}

\* Client c holds the normal result of a call of op.
Holds(c, op) == ret[c].op = op /\ ret[c].exc = ""

InCall(c) == frame[c].pc # "idle"

\* C1: on every descriptor BackendApp() produced, every greet() call returns
\* exactly "Hello from Backend Application v1.0.0".
C1_GreetExact ==
    \A c \in Clients :
        ret[c].op = "greet" => ret[c].exc = "" /\ ret[c].str = GreetingLine

\* A caller other than the entry point holds a greeting of the instance it
\* constructed itself, and the entry point's instance has been greeted too.
C1_Witness ==
    \E c \in Readers :
        /\ Holds(c, "greet") /\ ret[c].self = c
        /\ first[Main].greet # <<>>

\* C2: on every descriptor BackendApp() produced, every health_check() call
\* returns a mapping equal to {"status": "healthy", "service": "Backend
\* Application", "version": "1.0.0"}.
C2_HealthExact ==
    \A c \in Clients :
        ret[c].op = "health_check" =>
            ret[c].exc = "" /\ DictMap(ret[c].val) = HealthRecord

\* A caller other than the entry point holds a health record of the instance
\* it constructed itself, and the entry point's instance has been checked too.
C2_Witness ==
    \E c \in Readers :
        /\ Holds(c, "health_check") /\ ret[c].self = c
        /\ first[Main].health # <<>>

\* What a run of the entry point has on standard output at each position.
C3_Safe ==
    /\ mainpc # "construct" => app = Main /\ apps[Main] # <<>>
    /\ mainpc \in {"construct", "call_greet", "print_greet"} => stdout = <<>>
    /\ mainpc \in {"call_health", "print_health"} => stdout = << GreetingLine >>
    /\ mainpc \in {"exit", "done"} => stdout = << GreetingLine, HealthLine >>
    /\ mainpc = "done" <=> exitStatus # <<>>
    /\ exitStatus \in {<<>>, <<0>>}

\* C3: every run of the entry point constructs one descriptor, writes the
\* greeting line and then the "Health:" line rendering the three-entry
\* record, writes nothing else, and then terminates with exit status 0.
C3_EntryPoint == []C3_Safe /\ <>(mainpc = "done")

\* The run has ended, while another caller was in the middle of a call.
C3_Witness ==
    /\ mainpc = "done" /\ exitStatus = <<0>> /\ Len(stdout) = 2
    /\ \E c \in Readers : InCall(c) /\ frame[c].self = Main

\* C4: on one instance, every greet() call returns the string the first
\* greet() call returned and every health_check() call a mapping equal to the
\* one the first health_check() call returned, whatever calls came between.
C4_SameAsFirst ==
    \A c \in Clients :
        /\ Holds(c, "greet") => first[ret[c].self].greet = << ret[c].str >>
        /\ Holds(c, "health_check") =>
              /\ first[ret[c].self].health # <<>>
              /\ DictMap(first[ret[c].self].health[1]) = DictMap(ret[c].val)

\* Two callers hold results of one instance on which both methods have
\* returned before: the entry point its health record (so its greet() came
\* earlier) and another caller a greeting.
C4_Witness ==
    /\ Holds(Main, "health_check")
    /\ \E c \in Readers : Holds(c, "greet") /\ ret[c].self = Main

\* C5: after the constructor has returned, no step changes the instance's
\* name and version.
C5_FieldsImmutable ==
    [][\A a \in AppIds : apps[a] # <<>> => apps'[a] = apps[a]]_vars

\* Both methods have returned on an instance that still has the constructor's
\* values.
C5_Witness ==
    \E a \in Constructed :
        /\ first[a].greet # <<>> /\ first[a].health # <<>>
        /\ Obj(a) = BackendApp_init(EmptyObj)

\* C6: the constructor, greet() and health_check() never raise: every
\* instance has both attributes, no call ends in an exception, every call in
\* progress can take its next step, and the process never exits abnormally.
C6_Total ==
    /\ \A a \in Constructed : HasAttr(Obj(a), "name") /\ HasAttr(Obj(a), "version")
    /\ \A c \in Clients : ret[c].exc = ""
    /\ \A c \in Clients : InCall(c) => ENABLED MethodStep(c)
    /\ exitStatus # <<1>>

\* Every client holds a normal result at once.
C6_Witness ==
    /\ \A c \in Clients : ret[c].op # "none" /\ ret[c].exc = ""
    /\ \E c \in Clients : ret[c].self # c

\* C7: whatever texts name and version hold, the mapping health_check()
\* returns has exactly the keys "status", "service" and "version", and its
\* "status" entry is "healthy".
C7_ThreeKeys ==
    \A c \in Clients :
        Holds(c, "health_check") =>
            /\ Len(ret[c].val) = 3
            /\ DictKeys(ret[c].val) = HealthKeys
            /\ DictGet(ret[c].val, "status") = "healthy"
            /\ dicts[ret[c].ref] # <<>>

\* A record of an instance whose name is empty and whose version is not the
\* constructor's.
C7_Witness ==
    \E c \in Readers :
        /\ Holds(c, "health_check") /\ ret[c].self = Main
        /\ Obj(Main)["name"] = "" /\ Obj(Main)["version"] = "2"

\* What a call of op returns when it runs alone on an instance with fields f.
Alone(op, f) ==
    IF op = "greet" THEN GreetFormat(f["name"], f["version"])
    ELSE HealthDict(f["name"], f["version"])

\* C8: under every interleaving of greet() and health_check() calls of
\* several callers on one instance, each call returns what it would return
\* when run alone, and the instance's fields are as they were when the call
\* was made.
C8_SharedReaders ==
    \A c \in Clients :
        /\ InCall(c) => Obj(frame[c].self) = frame[c].snap
        /\ Holds(c, "greet") =>
              /\ ret[c].str = Alone("greet", ret[c].snap)
              /\ Obj(ret[c].self) = ret[c].snap
        /\ Holds(c, "health_check") =>
              /\ ret[c].val = Alone("health_check", ret[c].snap)
              /\ Obj(ret[c].self) = ret[c].snap

\* One caller's greet() has returned while another caller's health_check()
\* on the same instance is between its two attribute loads.
C8_Witness ==
    \E c, d \in Clients :
        /\ c # d
        /\ Holds(c, "greet")
        /\ frame[d].pc = "hc_version" /\ frame[d].self = ret[c].self

\* Client c's health_check() returns in this step.
HcReturns(c) == frame[c].pc = "hc_return" /\ frame'[c].pc = "idle"

\* Client c writes into the mapping it holds in this step.
Modifies(c) ==
    /\ Holds(c, "health_check") /\ ret'[c] = ret[c]
    /\ dicts'[ret[c].ref] # dicts[ret[c].ref]

\* C9: every health_check() call returns a new dict object built from the
\* instance's current name and version, and a caller's write into a mapping
\* it was handed changes no instance, no other mapping and no result.
C9_NeverCached ==
    [][/\ \A c \in Clients : HcReturns(c) =>
             /\ dicts[ret'[c].ref] = <<>>
             /\ \A e \in Clients \ {c} : Holds(e, "health_check") =>
                                           ret[e].ref # ret'[c].ref
             /\ dicts'[ret'[c].ref] =
                   << HealthDict(Obj(ret'[c].self)["name"],
                                 Obj(ret'[c].self)["version"]) >>
             /\ ret'[c].val = dicts'[ret'[c].ref][1]
       /\ \A c \in Clients : Modifies(c) =>
             /\ apps' = apps /\ ret' = ret /\ first' = first
             /\ \A e \in DictIds \ {ret[c].ref} : dicts'[e] = dicts[e]
      ]_vars

\* A caller holds a mapping it has written into, and the entry point holds
\* the intact record of the same instance.
C9_Witness ==
    \E c \in Readers :
        /\ Holds(c, "health_check") /\ Holds(Main, "health_check")
        /\ ret[c].self = ret[Main].self
        /\ dicts[ret[c].ref] # << ret[c].val >>
        /\ "extra" \in DictKeys(dicts[ret[c].ref][1])
        /\ dicts[ret[Main].ref] = << HealthDict("Backend Application", "1.0.0") >>

\* C10: whatever texts name and version hold, greet() is "Hello from ", the
\* "service" entry of health_check(), " v" and the "version" entry of
\* health_check().
C10_ViewsAgree ==
    /\ \A a \in AppIds :
          first[a].greet # <<>> /\ first[a].health # <<>> =>
              first[a].greet[1] =
                  "Hello from " \o DictGet(first[a].health[1], "service")
                  \o " v" \o DictGet(first[a].health[1], "version")
    /\ \A c \in Clients :
          Holds(c, "greet") /\ first[ret[c].self].health # <<>> =>
              ret[c].str =
                  "Hello from " \o DictGet(first[ret[c].self].health[1], "service")
                  \o " v" \o DictGet(first[ret[c].self].health[1], "version")

\* Both views have been taken of an instance whose fields are not the
\* constructor's.
C10_Witness ==
    /\ first[Main].greet # <<>> /\ first[Main].health # <<>>
    /\ Obj(Main)["name"] = "svc" /\ Obj(Main)["version"] = ""

====
